---- MODULE Spec2Model ----
(***************************************************************************)
(* Model of the routine recurrence engine of todo_app:                     *)
(*   core/routines.py  Routine.should_generate_today,                      *)
(*                     Routine._matches_repeat_pattern,                    *)
(*                     Routine.generate_tasks                              *)
(*                     RoutineManager.generate_routine_tasks               *)
(*   core/tasks.py     TaskManager.create_task, TaskManager.update_task,   *)
(*                     Task.add_child, Task.remove_child,                  *)
(*                     Task.mark_completed                                 *)
(* Dates are kept as (year, month, day, hour) records and every date       *)
(* computation (ordinal, weekday, difference in days) is done from those   *)
(* fields the way Python's datetime does it.                               *)
(***************************************************************************)
EXTENDS Integers, Sequences, FiniteSets, TLC

VARIABLES
    routine,   \* the Routine object
    now,       \* the wall clock, datetime.now()
    db,        \* the tasks table: rows, last AUTOINCREMENT id, UPDATEs, errors
    heap,      \* the Task objects in memory
    cache,     \* TaskManager._tasks_cache: task id -> Task object
    ret,       \* outcome of the last call
    genLog,    \* one entry per generate_tasks call, in call order
    rstore,    \* the routines table: routine id -> stored Routine
    pass,      \* the generate_routine_tasks invocations and where each stands
    passLog    \* one entry per routine a generate_routine_tasks pass visited

vars == <<routine, now, db, heap, cache, ret, genLog, rstore, pass, passLog>>

\* what the scheduler facade adds to the state
schedVars == <<rstore, pass, passLog>>

(***************************************************************************)
(* Bounds of the model.                                                    *)
(***************************************************************************)
\* largest repeat_interval tried
MaxInterval == 3
\* latest hour-of-day a datetime of the model carries (0 is midnight)
MaxHour == 1
\* number of generate_tasks calls followed in one behaviour
MaxCalls == 2
\* largest number of task templates of a routine
MaxTemplates == 2

None == "None"
\* the None of an Optional[datetime] and of an Optional[time]
NoDate == [year |-> 0, month |-> 0, day |-> 0, hour |-> 0]
NoTime == 0 - 1

(***************************************************************************)
(* datetime arithmetic (Python's proleptic Gregorian calendar).            *)
(***************************************************************************)
DT(y, m, d, h) == [year |-> y, month |-> m, day |-> d, hour |-> h]

is_leap(y) == (y % 4 = 0) /\ ((y % 100 # 0) \/ (y % 400 = 0))

days_in_month(y, m) ==
    IF m = 2 THEN (IF is_leap(y) THEN 29 ELSE 28)
    ELSE IF m \in {4, 6, 9, 11} THEN 30 ELSE 31

days_before_year(y) ==
    LET y1 == y - 1
    IN  y1 * 365 + (y1 \div 4) - (y1 \div 100) + (y1 \div 400)

RECURSIVE days_before_month(_, _)
days_before_month(y, m) ==
    IF m = 1 THEN 0 ELSE days_before_month(y, m - 1) + days_in_month(y, m - 1)

\* date.toordinal()
toordinal(t) == days_before_year(t.year) + days_before_month(t.year, t.month) + t.day

\* date.weekday(): 0 = Monday .. 6 = Sunday
weekday_of(t) == (toordinal(t) + 6) % 7

\* (a.date() - b.date()).days
days_between(a, b) == toordinal(a) - toordinal(b)

\* datetime comparison a < b: calendar date first, then time of day
dt_less(a, b) ==
    \/ toordinal(a) < toordinal(b)
    \/ toordinal(a) = toordinal(b) /\ a.hour < b.hour

\* a.date() == b.date()
same_date(a, b) == a.year = b.year /\ a.month = b.month /\ a.day = b.day

\* datetime.replace(hour=0, minute=0, second=0, microsecond=0)
midnight(t) == [t EXCEPT !.hour = 0]

(***************************************************************************)
(* Python integer operators.                                               *)
(***************************************************************************)
\* a % b for b # 0: the result takes the sign of the divisor
PyMod(a, b) == IF b > 0 THEN a % b ELSE 0 - ((0 - a) % (0 - b))

\* a // b for b > 0 (floor division)
PyFloorDiv(a, b) == IF a >= 0 THEN a \div b ELSE 0 - (((0 - a) + b - 1) \div b)

\* the value of `a and b` where a is a bool and b an int, used as an int:
\* the first operand when it is falsy (False, i.e. 0), else the second
PyAndInt(a, b) == IF a THEN b ELSE 0

(***************************************************************************)
(* Outcome of a call: a returned value or a raised exception.              *)
(***************************************************************************)
Return(v) == [exc |-> None, value |-> v]
Raise(e)  == [exc |-> e, value |-> FALSE]

\* `x % interval == 0`
mod_is_zero(x, interval) ==
    IF interval = 0 THEN Raise("ZeroDivisionError")
    ELSE Return(PyMod(x, interval) = 0)

(***************************************************************************)
(* Routine._matches_repeat_pattern                                         *)
(***************************************************************************)
\* daily_pattern with repeat_interval ignored (every day matches)
daily_pattern_every_day(r, target_date) ==
    mod_is_zero(days_between(target_date, r.start_date),
                IF r.repeat_interval = 0 THEN 0 ELSE 1)

\* RepeatType.DAILY
daily_pattern(r, target_date) ==
    mod_is_zero(days_between(target_date, r.start_date), r.repeat_interval)

\* weekly_pattern without the same-weekday test
weekly_pattern_any_weekday(r, target_date) ==
    mod_is_zero(PyFloorDiv(days_between(target_date, r.start_date), 7),
                r.repeat_interval)

\* RepeatType.WEEKLY: the modulo is evaluated before the weekday test
weekly_pattern(r, target_date) ==
    LET weeks_since_start == PyFloorDiv(days_between(target_date, r.start_date), 7)
        m == mod_is_zero(weeks_since_start, r.repeat_interval)
    IN  IF m.exc # None THEN m
        ELSE Return(m.value /\ weekday_of(target_date) = weekday_of(r.start_date))

\* RepeatType.MONTHLY: the source reads  (A and B) % interval == 0, so the
\* modulo applies to the value of `A and B'
monthly_pattern(r, target_date) ==
    mod_is_zero(PyAndInt(target_date.day = r.start_date.day,
                         (target_date.year - r.start_date.year) * 12
                           + target_date.month - r.start_date.month),
                r.repeat_interval)

\* weekday_pattern with Saturday on the wrong side (<= 5 for < 5, > 5 for >= 5)
weekday_pattern_saturday(r, weekday) ==
    CASE r.repeat_type = "weekdays" -> Return(weekday <= 5)
      [] r.repeat_type = "weekends" -> Return(weekday > 5)
      [] r.repeat_type = "custom" -> Return(weekday \in r.custom_days)
      [] OTHER -> Return(FALSE)

\* RepeatType.WEEKDAYS, WEEKENDS, CUSTOM
weekday_pattern(r, weekday) ==
    CASE r.repeat_type = "weekdays" -> Return(weekday < 5)
      [] r.repeat_type = "weekends" -> Return(weekday >= 5)
      [] r.repeat_type = "custom" -> Return(weekday \in r.custom_days)
      [] OTHER -> Return(FALSE)

matches_repeat_pattern(r, target_date) ==
    CASE r.repeat_type = "daily" -> daily_pattern(r, target_date)
      [] r.repeat_type = "weekly" -> weekly_pattern(r, target_date)
      [] r.repeat_type = "monthly" -> monthly_pattern(r, target_date)
      [] OTHER -> weekday_pattern(r, weekday_of(target_date))

(***************************************************************************)
(* Routine.should_generate_today                                           *)
(***************************************************************************)
\* `if target_date is None: target_date = datetime.now().replace(...)`
resolve_target(target_date, clock) ==
    IF target_date = NoDate THEN midnight(clock) ELSE target_date

\* should_generate_today without the end_date test
should_generate_today_no_end(r, target_date, clock) ==
    LET t == resolve_target(target_date, clock)
    IN  IF ~r.is_active THEN Return(FALSE)
        ELSE IF dt_less(t, r.start_date) THEN Return(FALSE)
        ELSE IF r.last_generated # NoDate /\ same_date(r.last_generated, t)
             THEN Return(FALSE)
        ELSE matches_repeat_pattern(r, t)

should_generate_today(r, target_date, clock) ==
    LET t == resolve_target(target_date, clock)
    IN  IF ~r.is_active THEN Return(FALSE)
        ELSE IF dt_less(t, r.start_date) THEN Return(FALSE)
        ELSE IF r.end_date # NoDate /\ dt_less(r.end_date, t) THEN Return(FALSE)
        ELSE IF r.last_generated # NoDate /\ same_date(r.last_generated, t)
             THEN Return(FALSE)
        ELSE matches_repeat_pattern(r, t)

(***************************************************************************)
(* Strings are sequences of one-character strings.                         *)
(***************************************************************************)
Whitespace == {" ", "\t", "\n"}

RECURSIVE lstrip(_)
lstrip(s) ==
    IF s # <<>> /\ Head(s) \in Whitespace THEN lstrip(Tail(s)) ELSE s

RECURSIVE rstrip(_)
rstrip(s) ==
    IF s # <<>> /\ s[Len(s)] \in Whitespace
    THEN rstrip(SubSeq(s, 1, Len(s) - 1)) ELSE s

\* str.strip()
strip(s) == rstrip(lstrip(s))

DigitChar(n) == <<"0", "1", "2", "3", "4", "5", "6", "7", "8", "9">>[n + 1]

\* zero-padded decimal of width 2 (%m, %d) and 4 (%Y)
Pad2(n) == <<DigitChar((n \div 10) % 10), DigitChar(n % 10)>>
Pad4(n) == <<DigitChar((n \div 1000) % 10), DigitChar((n \div 100) % 10)>> \o Pad2(n % 100)

\* target_date.strftime('%Y-%m-%d')
strftime(t) == Pad4(t.year) \o <<"-">> \o Pad2(t.month) \o <<"-">> \o Pad2(t.day)

\* f"{title} - {target_date.strftime('%Y-%m-%d')}"
dated_title(title, t) == title \o <<" ", "-", " ">> \o strftime(t)

(***************************************************************************)
(* Task objects, the tasks table and the TaskManager cache.                *)
(* A task id of 0 stands for None; objects live in `heap' and are named by *)
(* their index there (0 is the null reference).                            *)
(***************************************************************************)
NoId == 0
NoRef == 0

\* Task.__init__
NewTask(title, description, task_id, parent_id, user_id) ==
    [task_id |-> task_id, title |-> title, description |-> description,
     completed |-> FALSE, parent_id |-> parent_id, user_id |-> user_id,
     due_date |-> NoDate, children |-> <<>>, parent |-> NoRef]

\* the columns DatabaseHandler.save_task / update_task write
RowOf(task, id) ==
    [id |-> id, title |-> task.title, description |-> task.description,
     completed |-> task.completed, parent_id |-> task.parent_id,
     user_id |-> task.user_id, due_date |-> task.due_date]

\* DatabaseHandler._row_to_task
row_to_task(row) ==
    [NewTask(row.title, row.description, row.id, row.parent_id, row.user_id)
       EXCEPT !.completed = row.completed, !.due_date = row.due_date]

HasRow(d, id) == \E i \in 1..Len(d.rows) : d.rows[i].id = id

RowIndex(d, id) == CHOOSE i \in 1..Len(d.rows) : d.rows[i].id = id

\* DatabaseHandler.save_task: the new id, or None when sqlite raises.
\* d.errors counts the sqlite3.Error raised (history, read by no code).
save_task(d, task, ok) ==
    IF ok
    THEN [db |-> [d EXCEPT !.rows = Append(@, RowOf(task, d.lastrowid + 1)),
                           !.lastrowid = @ + 1],
          id |-> d.lastrowid + 1]
    ELSE [db |-> [d EXCEPT !.errors = @ + 1], id |-> NoId]

\* DatabaseHandler.update_task: UPDATE ... WHERE id = ?; rowcount > 0.
\* d.updates counts the calls of it (history of the table, read by no code).
db_update_task(d, task, ok) ==
    IF ok /\ HasRow(d, task.task_id)
    THEN [db |-> [d EXCEPT !.rows[RowIndex(d, task.task_id)] = RowOf(task, task.task_id),
                           !.updates = @ + 1],
          success |-> TRUE]
    ELSE [db |-> [d EXCEPT !.updates = @ + 1,
                           !.errors = IF ok THEN @ ELSE @ + 1],
          success |-> FALSE]

\* self._tasks_cache[key] = task
cache_put(c, key, ref) ==
    [k \in (DOMAIN c) \cup {key} |-> IF k = key THEN ref ELSE c[k]]

\* Task.add_child
add_child(h, p, c) ==
    IF \E i \in 1..Len(h[p].children) : h[p].children[i] = c
    THEN h
    ELSE [h EXCEPT ![p].children = Append(@, c),
                   ![c].parent = p,
                   ![c].parent_id = h[p].task_id]

\* TaskManager.get_task: the cache first, then the database
get_task(s, task_id) ==
    IF task_id \in DOMAIN s.cache
    THEN [s |-> s, ref |-> s.cache[task_id]]
    ELSE IF HasRow(s.db, task_id)
    THEN [s |-> [s EXCEPT !.heap = Append(@, row_to_task(s.db.rows[RowIndex(s.db, task_id)])),
                          !.cache = cache_put(@, task_id, Len(s.heap) + 1)],
          ref |-> Len(s.heap) + 1]
    ELSE [s |-> s, ref |-> NoRef]

\* create_task after save_task returned: set task.task_id, cache the task
task_saved(s, saved, task) ==
    [db |-> saved.db,
     heap |-> Append(s.heap, [task EXCEPT !.task_id = saved.id]),
     cache |-> cache_put(s.cache, saved.id, Len(s.heap) + 1)]

\* create_task after get_task(parent_id) returned: parent_task.add_child(task)
parent_linked(got, ref) ==
    IF got.ref # NoRef
    THEN [got.s EXCEPT !.heap = add_child(@, got.ref, ref)]
    ELSE got.s

\* create_task from the caching of the new task (the last object of the heap) on
task_cached(s1, parent_id) ==
    [s |-> IF parent_id # NoId
           THEN parent_linked(get_task(s1, parent_id), Len(s1.heap))
           ELSE s1,
     exc |-> None,
     ref |-> Len(s1.heap)]

\* TaskManager.create_task; s is the [db, heap, cache] state of the manager
create_task(s, title, description, user_id, parent_id, ok) ==
    IF strip(title) = <<>>
    THEN [s |-> s, exc |-> "ValueError", ref |-> NoRef]
    ELSE task_cached(
           task_saved(s,
                      save_task(s.db,
                                NewTask(strip(title), strip(description), NoId,
                                        parent_id, user_id),
                                ok),
                      NewTask(strip(title), strip(description), NoId,
                              parent_id, user_id)),
           parent_id)

\* update_task after db_handler.update_task returned
task_updated(s, upd, ref) ==
    [s EXCEPT !.db = upd.db,
              !.cache = IF upd.success /\ s.heap[ref].task_id # NoId
                        THEN cache_put(@, s.heap[ref].task_id, ref) ELSE @]

\* TaskManager.update_task
update_task(s, ref, ok) == task_updated(s, db_update_task(s.db, s.heap[ref], ok), ref)

(***************************************************************************)
(* Routine.generate_tasks                                                  *)
(*   c1, c2, c3 are the wall-clock readings of the call (the evaluator's   *)
(*   default target, the generator's default target, last_generated);      *)
(*   save_fail / upd_fail number the save_task / update_task call of this  *)
(*   generate_tasks call on which sqlite fails (0: none fails).            *)
(***************************************************************************)
\* datetime.combine(target_date.date(), self.preferred_time)
combine(t, preferred_time) == [t EXCEPT !.hour = preferred_time]

\* a generator that sets the due date on the object and never saves it
due_date_set_unsaved(s, r, ref, t, ok) ==
    IF r.preferred_time # NoTime
    THEN [s EXCEPT !.heap[ref].due_date = combine(t, r.preferred_time)]
    ELSE s

\* `if self.preferred_time:' task.due_date = ...; task_manager.update_task(task)
due_date_set(s, r, ref, t, ok) ==
    IF r.preferred_time # NoTime
    THEN update_task([s EXCEPT !.heap[ref].due_date = combine(t, r.preferred_time)],
                     ref, ok)
    ELSE s

\* a generator that never appends the date to a template's title
template_title_undated(r, i, t) == r.task_templates[i].title

\* title of the task made from template i
template_title(r, i, t) ==
    IF Len(r.task_templates) = 1
    THEN dated_title(r.task_templates[i].title, t)
    ELSE r.task_templates[i].title

\* the `for template in self.task_templates' loop, from template i on;
\* template_created is the body of the loop after create_task returned
RECURSIVE template_loop(_, _, _, _, _, _, _, _)
RECURSIVE template_created(_, _, _, _, _, _, _, _)
template_created(made, r, i, parent_ref, t, tasks, save_fail, upd_fail) ==
    IF made.exc # None
    THEN [s |-> made.s, exc |-> made.exc, tasks |-> tasks]
    ELSE template_loop(due_date_set(made.s, r, made.ref, t, upd_fail # i),
                       r, i + 1, parent_ref, t, Append(tasks, made.ref),
                       save_fail, upd_fail)

template_loop(s, r, i, parent_ref, t, tasks, save_fail, upd_fail) ==
    IF i > Len(r.task_templates)
    THEN [s |-> s, exc |-> None, tasks |-> tasks]
    ELSE template_created(
           create_task(s, template_title(r, i, t),
                       r.task_templates[i].description, r.user_id,
                       IF parent_ref # NoRef THEN s.heap[parent_ref].task_id ELSE NoId,
                       save_fail # (IF parent_ref # NoRef THEN i + 1 ELSE i)),
           r, i, parent_ref, t, tasks, save_fail, upd_fail)

\* generate_tasks after the loop: exceptions propagate, else last_generated is set
loop_done(looped, r, c3) ==
    IF looped.exc # None
    THEN [s |-> looped.s, r |-> r, exc |-> looped.exc, tasks |-> <<>>, fired |-> TRUE]
    ELSE [s |-> looped.s, r |-> [r EXCEPT !.last_generated = c3],
          exc |-> None, tasks |-> looped.tasks, fired |-> TRUE]

\* generate_tasks after the parent task was created (several templates)
parent_created(parent, r, t, c3, save_fail, upd_fail) ==
    IF parent.exc # None
    THEN [s |-> parent.s, r |-> r, exc |-> parent.exc, tasks |-> <<>>, fired |-> TRUE]
    ELSE loop_done(template_loop(parent.s, r, 1, parent.ref, t, <<parent.ref>>,
                                 save_fail, upd_fail),
                   r, c3)

\* a generator that stamps last_generated although the evaluator answered False
evaluated_stamping_on_false(ev, r, s, t, c3, save_fail, upd_fail) ==
    IF ev.exc # None
    THEN [s |-> s, r |-> r, exc |-> ev.exc, tasks |-> <<>>, fired |-> FALSE]
    ELSE IF ~ev.value
    THEN [s |-> s, r |-> [r EXCEPT !.last_generated = c3], exc |-> None,
          tasks |-> <<>>, fired |-> FALSE]
    ELSE IF Len(r.task_templates) > 1
    THEN parent_created(create_task(s, dated_title(r.name, t), r.description,
                                    r.user_id, NoId, save_fail # 1),
                        r, t, c3, save_fail, upd_fail)
    ELSE loop_done(template_loop(s, r, 1, NoRef, t, <<>>, save_fail, upd_fail),
                   r, c3)

\* generate_tasks after should_generate_today answered
evaluated(ev, r, s, t, c3, save_fail, upd_fail) ==
    IF ev.exc # None
    THEN [s |-> s, r |-> r, exc |-> ev.exc, tasks |-> <<>>, fired |-> FALSE]
    ELSE IF ~ev.value
    THEN [s |-> s, r |-> r, exc |-> None, tasks |-> <<>>, fired |-> FALSE]
    ELSE IF Len(r.task_templates) > 1
    THEN parent_created(create_task(s, dated_title(r.name, t), r.description,
                                    r.user_id, NoId, save_fail # 1),
                        r, t, c3, save_fail, upd_fail)
    ELSE loop_done(template_loop(s, r, 1, NoRef, t, <<>>, save_fail, upd_fail),
                   r, c3)

\* a generator that sets last_generated to the target date
generate_tasks_stamping_target(r, s, target_date, c1, c2, c3, save_fail, upd_fail) ==
    evaluated(should_generate_today(r, target_date, c1), r, s,
              resolve_target(target_date, c2), resolve_target(target_date, c2),
              save_fail, upd_fail)

generate_tasks(r, s, target_date, c1, c2, c3, save_fail, upd_fail) ==
    evaluated(should_generate_today(r, target_date, c1), r, s,
              resolve_target(target_date, c2), c3, save_fail, upd_fail)

(***************************************************************************)
(* The values the model draws from.                                        *)
(***************************************************************************)
RepeatTypes == {"daily", "weekly", "monthly", "weekdays", "weekends", "custom"}

\* repeat_interval is a plain integer attribute
Intervals == (0 - 1)..MaxInterval

\* task_templates after n calls of add_task_template("A"), ("B"), ...
TemplateTitle(i) == <<<<"A">>, <<"B">>, <<"C">>, <<"D">>>>[i]
Templates(n) == [i \in 1..n |-> [title |-> TemplateTitle(i), description |-> <<>>]]

\* add_task_template stores any string: a title of whitespace only
BlankTitle == <<" ">>

\* the template lists of the routines that generate: n titled templates, or
\* n templates the last of which has the blank title
TemplateLists ==
    {Templates(n) : n \in 0..MaxTemplates} \cup
    {[Templates(n) EXCEPT ![n].title = BlankTitle] : n \in 1..MaxTemplates}

RoutineName == <<"R">>
UserId == 1

\* timedelta(days=1) later
next_day(t) ==
    IF t.day < days_in_month(t.year, t.month) THEN [t EXCEPT !.day = @ + 1]
    ELSE IF t.month < 12 THEN [t EXCEPT !.month = @ + 1, !.day = 1]
    ELSE [t EXCEPT !.year = @ + 1, !.month = 1, !.day = 1]

\* the next instant the clock of the model shows
next_instant(t) ==
    IF t.hour < MaxHour THEN [t EXCEPT !.hour = @ + 1] ELSE midnight(next_day(t))

\* the wall clock when the model starts and the last instant it follows
Epoch == DT(2024, 1, 31, MaxHour)
LastInstant == DT(2024, 2, 1, MaxHour)

RECURSIVE InstantsFrom(_)
InstantsFrom(t) == IF t = LastInstant THEN {t} ELSE {t} \cup InstantsFrom(next_instant(t))
AllInstants == InstantsFrom(Epoch)

\* the clock readings of one call: each reading is the previous one or later
Readings(t) ==
    IF t = LastInstant THEN {t} ELSE {t, next_instant(t)}

\* target dates handed to the generator (NoDate: the argument is omitted)
GenTargets == {NoDate, DT(2024, 2, 1, MaxHour), DT(2024, 2, 2, 0)}

\* target dates the evaluator is asked about between generations
ProbeTargets == {NoDate, DT(2024, 2, 1, MaxHour)}

\* the recurrence kinds and intervals of the routines that generate
GenRepeatTypes == {"daily", "monthly", "custom"}
GenIntervals == {0, 2}

EmptyStore == [rows |-> <<>>, lastrowid |-> 0, updates |-> 0, errors |-> 0]

NoCall == [op |-> "none", target |-> NoDate, exc |-> None, value |-> FALSE,
           tasks |-> <<>>]

TypeOK ==
    /\ routine.repeat_type \in RepeatTypes
    /\ routine.repeat_interval \in Intervals
    /\ routine.is_active \in BOOLEAN
    /\ Len(routine.task_templates) <= MaxTemplates
    /\ Len(genLog) <= MaxCalls
    /\ db.lastrowid >= Len(db.rows)

(***************************************************************************)
(* The generation state machine.                                           *)
(***************************************************************************)
\* Routine.__init__ followed by the attribute assignments that configure it
Init ==
    /\ routine \in [is_active : BOOLEAN,
                    repeat_type : GenRepeatTypes,
                    repeat_interval : GenIntervals,
                    start_date : {DT(2024, 1, 31, 0)},
                    end_date : {NoDate, DT(2024, 2, 1, 0)},
                    last_generated : {NoDate},
                    custom_days : {{2, 4}},
                    task_templates : TemplateLists,
                    preferred_time : {NoTime, MaxHour},
                    name : {RoutineName},
                    description : {<<>>},
                    user_id : {UserId}]
    /\ now = Epoch
    /\ db = EmptyStore
    /\ heap = <<>>
    /\ cache = <<>>
    /\ ret = NoCall
    /\ genLog = <<>>
    /\ rstore = <<>>
    /\ pass = <<>>
    /\ passLog = <<>>

\* time passes
Tick ==
    /\ now # LastInstant
    /\ now' = next_instant(now)
    /\ UNCHANGED <<routine, db, heap, cache, ret, genLog>>
    /\ UNCHANGED schedVars

\* an evaluator that stamps last_generated when it answers True
ShouldGenerateToday_stamping(target_date) ==
    LET ev == should_generate_today(routine, target_date, now)
    IN  /\ ret' = [op |-> "should_generate_today", target |-> target_date,
                   exc |-> ev.exc, value |-> ev.value, tasks |-> <<>>]
        /\ routine' = IF ev.exc = None /\ ev.value
                      THEN [routine EXCEPT !.last_generated = now] ELSE routine
        /\ UNCHANGED <<now, db, heap, cache, genLog>>
        /\ UNCHANGED schedVars

\* routine.should_generate_today(target_date)
ShouldGenerateToday(target_date) ==
    LET ev == should_generate_today(routine, target_date, now)
    IN  /\ ret' = [op |-> "should_generate_today", target |-> target_date,
                   exc |-> ev.exc, value |-> ev.value, tasks |-> <<>>]
        /\ UNCHANGED <<routine, now, db, heap, cache, genLog>>
        /\ UNCHANGED schedVars

\* the state after a generate_tasks call that ended as g
Generated(g, target_date, c2, c3) ==
    /\ routine' = g.r
    /\ db' = g.s.db
    /\ heap' = g.s.heap
    /\ cache' = g.s.cache
    /\ now' = c3
    /\ ret' = [op |-> "generate_tasks", target |-> target_date,
               exc |-> g.exc, value |-> g.fired, tasks |-> g.tasks]
    /\ genLog' = Append(genLog,
                    [date |-> midnight(resolve_target(target_date, c2)),
                     fired |-> g.fired,
                     exc |-> g.exc,
                     returned |-> Len(g.tasks),
                     stored |-> g.s.db.lastrowid - db.lastrowid,
                     updated |-> g.s.db.updates - db.updates,
                     errors |-> g.s.db.errors - db.errors])
    /\ UNCHANGED schedVars

\* routine.generate_tasks(task_manager, target_date)
GenerateTasks(target_date, c1, c2, c3, save_fail, upd_fail) ==
    /\ Len(genLog) < MaxCalls
    /\ Generated(generate_tasks(routine, [db |-> db, heap |-> heap, cache |-> cache],
                                target_date, c1, c2, c3, save_fail, upd_fail),
                 target_date, c2, c3)

\* the wall-clock readings of one generate_tasks call.  A clock that moved
\* before the first reading the call makes is the same as a Tick before the
\* call: with target_date omitted the first reading is c1, with an explicit
\* target the only reading is c3.
CallReadings(target_date) ==
    IF target_date = NoDate
    THEN {<<now, c2, c3>> : c2 \in Readings(now), c3 \in AllInstants} \cap
         {c \in {now} \X AllInstants \X AllInstants : c[3] \in Readings(c[2])}
    ELSE {<<now, now, now>>}

Next ==
    \/ Tick
    \/ \E t \in ProbeTargets : ShouldGenerateToday(t)
    \/ \E t \in GenTargets : \E c \in CallReadings(t) :
         GenerateTasks(t, c[1], c[2], c[3], 0, 0)

Spec == Init /\ [][Next]_vars

(***************************************************************************)
(* The generator over a tasks table whose statements can fail: in one      *)
(* generate_tasks call sqlite raises on at most one save_task or           *)
(* update_task call.                                                       *)
(***************************************************************************)
\* the save_task / update_task call of one generate_tasks call that fails
\* (0: none): the parent and every template are saved, every template updated
SaveFailures == 0..(MaxTemplates + 1)
UpdateFailures == 0..MaxTemplates

InitFail ==
    /\ routine \in [is_active : {TRUE},
                    repeat_type : {"custom"},
                    repeat_interval : {2},
                    start_date : {DT(2024, 1, 31, 0)},
                    end_date : {NoDate},
                    last_generated : {NoDate},
                    custom_days : {{2, 4}},
                    task_templates : {Templates(n) : n \in 0..MaxTemplates},
                    preferred_time : {NoTime, MaxHour},
                    name : {RoutineName},
                    description : {<<>>},
                    user_id : {UserId}]
    /\ now = Epoch
    /\ db = EmptyStore
    /\ heap = <<>>
    /\ cache = <<>>
    /\ ret = NoCall
    /\ genLog = <<>>
    /\ rstore = <<>>
    /\ pass = <<>>
    /\ passLog = <<>>

NextFail ==
    \/ Tick
    \/ \E t \in GenTargets : \E c \in CallReadings(t) :
         \E save_fail \in SaveFailures, upd_fail \in UpdateFailures :
           /\ save_fail = 0 \/ upd_fail = 0
           /\ GenerateTasks(t, c[1], c[2], c[3], save_fail, upd_fail)

SpecFail == InitFail /\ [][NextFail]_vars

(***************************************************************************)
(* RoutineManager.generate_routine_tasks.                                  *)
(* An invocation loads the user's active routines, then for each of them   *)
(* calls generate_tasks and, when tasks came back, update_routine.  The    *)
(* steps of an invocation (the load, each generate_tasks call, each        *)
(* update_routine call, the return) are separate actions, so that two      *)
(* invocations can overlap.  The routines table is reached through         *)
(* db_handler.load_user_routines and db_handler.update_routine.            *)
(***************************************************************************)
\* number of rows of the routines table
MaxRoutines == 2

\* the generate_routine_tasks invocations, numbered in the order they start
Passes == {1, 2}

\* db_handler.load_user_routines(user_id, active_only): a new Routine object
\* for each stored routine of the user, in id order
load_user_routines(store, user_id, active_only) ==
    LET wanted(e) == e.r.user_id = user_id /\ (active_only => e.r.is_active)
    IN  SelectSeq([i \in 1..Len(store) |-> [routine_id |-> i, r |-> store[i]]],
                  wanted)

\* db_handler.update_routine(routine): the object's fields replace its row
db_update_routine(store, e) == [store EXCEPT ![e.routine_id] = e.r]

\* a facade that writes every routine it visited back
tasks_were_generated_or_not(generated_tasks) == TRUE

\* `if generated_tasks:'
tasks_were_generated(generated_tasks) == generated_tasks # <<>>

\* an invocation that has not started
IdlePass == [pc |-> "idle", target |-> NoDate, routines |-> <<>>, i |-> 0,
             all_generated_tasks |-> <<>>, exc |-> None]

\* the routine object the invocation p is at
Current(p) == pass[p].routines[pass[p].i]

\* the routines the table holds: every second day from 2024-01-31 on
RoutineOf(active, templates) ==
    [is_active |-> active, repeat_type |-> "daily", repeat_interval |-> 2,
     start_date |-> DT(2024, 1, 31, 0), end_date |-> NoDate,
     last_generated |-> NoDate, custom_days |-> {},
     task_templates |-> templates, preferred_time |-> NoTime,
     name |-> RoutineName, description |-> <<>>, user_id |-> UserId]

SchedTemplateLists ==
    {Templates(0), Templates(1), [Templates(2) EXCEPT ![2].title = BlankTitle]}

SchedRoutines == {RoutineOf(a, tl) : a \in BOOLEAN, tl \in SchedTemplateLists}

\* target dates handed to generate_routine_tasks (NoDate: omitted)
SchedTargets == {NoDate, DT(2024, 2, 2, 0)}

InitSched ==
    /\ rstore \in [1..MaxRoutines -> SchedRoutines]
    /\ pass = [p \in Passes |-> IdlePass]
    /\ passLog = <<>>
    /\ routine = RoutineOf(FALSE, <<>>)
    /\ now = Epoch
    /\ db = EmptyStore
    /\ heap = <<>>
    /\ cache = <<>>
    /\ ret = NoCall
    /\ genLog = <<>>

\* time passes between the steps of the invocations
TickSched ==
    /\ now # LastInstant
    /\ now' = next_instant(now)
    /\ UNCHANGED <<routine, db, heap, cache, ret, genLog, rstore, pass, passLog>>

\* routines = self.get_user_routines(user_id, active_only=True)
LoadRoutines(p, target_date) ==
    /\ pass[p].pc = "idle"
    /\ pass' = [pass EXCEPT ![p] =
                 [pc |-> "loop", target |-> target_date,
                  routines |-> load_user_routines(rstore, UserId, TRUE),
                  i |-> 1, all_generated_tasks |-> <<>>, exc |-> None]]
    /\ UNCHANGED <<routine, now, db, heap, cache, ret, genLog, rstore, passLog>>

\* the invocation after routine.generate_tasks ended as g: an exception
\* leaves generate_routine_tasks, a list is added to all_generated_tasks
RoutineGenerated(p, g) ==
    /\ db' = g.s.db
    /\ heap' = g.s.heap
    /\ cache' = g.s.cache
    /\ pass' = [pass EXCEPT ![p] =
                 IF g.exc # None
                 THEN [pass[p] EXCEPT !.pc = "raised", !.exc = g.exc]
                 ELSE [pass[p] EXCEPT
                         !.routines[pass[p].i].r = g.r,
                         !.all_generated_tasks = @ \o g.tasks,
                         !.pc = IF tasks_were_generated(g.tasks)
                                THEN "update" ELSE "loop",
                         !.i = IF tasks_were_generated(g.tasks)
                               THEN @ ELSE @ + 1]]
    /\ passLog' = Append(passLog,
                     [pass |-> p,
                      routine_id |-> Current(p).routine_id,
                      date |-> midnight(resolve_target(pass[p].target, now)),
                      returned |-> Len(g.tasks),
                      stored |-> g.s.db.lastrowid - db.lastrowid,
                      exc |-> g.exc,
                      updated |-> FALSE])
    /\ UNCHANGED <<routine, now, ret, genLog, rstore>>

\* generated_tasks = routine.generate_tasks(self.task_manager, target_date)
GenerateForRoutine(p) ==
    /\ pass[p].pc = "loop"
    /\ pass[p].i <= Len(pass[p].routines)
    /\ RoutineGenerated(p, generate_tasks(Current(p).r,
                                          [db |-> db, heap |-> heap, cache |-> cache],
                                          pass[p].target, now, now, now, 0, 0))

\* the log entry of the routine the invocation p visited last
LastEntryOf(p) ==
    CHOOSE k \in 1..Len(passLog) :
        passLog[k].pass = p /\ \A j \in (k + 1)..Len(passLog) : passLog[j].pass # p

\* self.update_routine(routine)
UpdateRoutine(p) ==
    /\ pass[p].pc = "update"
    /\ rstore' = db_update_routine(rstore, Current(p))
    /\ pass' = [pass EXCEPT ![p].pc = "loop", ![p].i = @ + 1]
    /\ passLog' = [passLog EXCEPT ![LastEntryOf(p)].updated = TRUE]
    /\ UNCHANGED <<routine, now, db, heap, cache, ret, genLog>>

\* return all_generated_tasks
ReturnTasks(p) ==
    /\ pass[p].pc = "loop"
    /\ pass[p].i > Len(pass[p].routines)
    /\ pass' = [pass EXCEPT ![p].pc = "done"]
    /\ UNCHANGED <<routine, now, db, heap, cache, ret, genLog, rstore, passLog>>

\* invocations that may overlap
NextSched ==
    \/ TickSched
    \/ \E p \in Passes, t \in SchedTargets :
         (\A q \in Passes : q < p => pass[q].pc # "idle") /\ LoadRoutines(p, t)
    \/ \E p \in Passes : GenerateForRoutine(p)
    \/ \E p \in Passes : UpdateRoutine(p)
    \/ \E p \in Passes : ReturnTasks(p)

SpecSched == InitSched /\ [][NextSched]_vars

\* invocations one after the other: one starts when the one before has ended
NextSerial ==
    \/ TickSched
    \/ \E p \in Passes, t \in SchedTargets :
         /\ \A q \in Passes : q < p => pass[q].pc \in {"done", "raised"}
         /\ LoadRoutines(p, t)
    \/ \E p \in Passes : GenerateForRoutine(p)
    \/ \E p \in Passes : UpdateRoutine(p)
    \/ \E p \in Passes : ReturnTasks(p)

SpecSerial == InitSched /\ [][NextSerial]_vars

(***************************************************************************)
(* Task trees: Task.add_child, Task.remove_child and Task.mark_completed   *)
(* on Task objects in memory.  A recursion deeper than any path of an      *)
(* acyclic tree of the model ends in RecursionError, as a recursion        *)
(* without end does in Python.                                             *)
(***************************************************************************)
\* number of Task objects of the tree model
MaxTasks == 3

\* call depth no acyclic tree of the model reaches
RecursionLimit == MaxTasks + 1

\* the elements of a list
Elems(seq) == {seq[i] : i \in 1..Len(seq)}

\* Task.remove_child
remove_child(h, p, c) ==
    IF c \in Elems(h[p].children)
    THEN LET other(x) == x # c
         IN  [h EXCEPT ![p].children = SelectSeq(@, other),
                       ![c].parent = NoRef,
                       ![c].parent_id = NoId]
    ELSE h

\* a cascade that sets the flag of the children and goes no deeper
mark_children_shallow(h, ref, i, depth) ==
    [h |-> [x \in DOMAIN h |->
              IF x \in Elems(h[ref].children) THEN [h[x] EXCEPT !.completed = TRUE]
              ELSE h[x]],
     exc |-> None]

\* Task.mark_completed; mark_children is its loop `for child in self.children'
\* from the i-th child on, child_marked the loop after child.mark_completed(True)
RECURSIVE mark_completed(_, _, _, _)
RECURSIVE child_marked(_, _, _, _)
mark_children(h, ref, i, depth) ==
    IF i > Len(h[ref].children)
    THEN [h |-> h, exc |-> None]
    ELSE child_marked(mark_completed(h, h[ref].children[i], TRUE, depth + 1),
                      ref, i, depth)

child_marked(m, ref, i, depth) ==
    IF m.exc # None THEN m ELSE mark_children(m.h, ref, i + 1, depth)

mark_completed(h, ref, completed, depth) ==
    IF depth > RecursionLimit
    THEN [h |-> h, exc |-> "RecursionError"]
    ELSE IF completed
    THEN mark_children([h EXCEPT ![ref].completed = TRUE], ref, 1, depth)
    ELSE [h |-> [h EXCEPT ![ref].completed = FALSE], exc |-> None]

\* sum(1 for child in self.children if child.completed), from the i-th child on
RECURSIVE completed_children(_, _, _)
completed_children(h, ref, i) ==
    IF i > Len(h[ref].children) THEN 0
    ELSE (IF h[h[ref].children[i]].completed THEN 1 ELSE 0)
         + completed_children(h, ref, i + 1)

\* a percentage that is the fraction of completed children also for a task
\* that is itself complete
get_completion_percentage_of_children(h, ref) ==
    IF h[ref].children = <<>>
    THEN IF h[ref].completed THEN <<1, 1>> ELSE <<0, 1>>
    ELSE <<completed_children(h, ref, 1), Len(h[ref].children)>>

\* Task.get_completion_percentage; the float is kept as <<numerator,
\* denominator>>, 1.0 as <<1, 1>> and 0.0 as <<0, 1>>
get_completion_percentage(h, ref) ==
    IF h[ref].children = <<>>
    THEN IF h[ref].completed THEN <<1, 1>> ELSE <<0, 1>>
    ELSE IF h[ref].completed
    THEN <<1, 1>>
    ELSE <<completed_children(h, ref, 1), Len(h[ref].children)>>

\* the tasks reachable from the tasks of S along children lists, S included
RECURSIVE Reach(_, _)
Reach(h, S) ==
    IF \A x \in S : Elems(h[x].children) \subseteq S
    THEN S
    ELSE Reach(h, S \cup UNION {Elems(h[x].children) : x \in S})

TaskRefs == 1..MaxTasks

InitTree ==
    /\ heap = [i \in TaskRefs |-> NewTask(TemplateTitle(1), <<>>, i, NoId, UserId)]
    /\ cache = [i \in TaskRefs |-> i]
    /\ ret = NoCall
    /\ routine = RoutineOf(FALSE, <<>>)
    /\ now = Epoch
    /\ db = EmptyStore
    /\ genLog = <<>>
    /\ rstore = <<>>
    /\ pass = <<>>
    /\ passLog = <<>>

\* what the operations on Task objects leave alone
treeFrame == <<routine, now, db, cache, genLog, rstore, pass, passLog>>

\* heap[p].add_child(heap[c]) as the callers use it (create_task on the task
\* it made, _build_task_hierarchy on a task just loaded): c has no parent
\* yet; c is not p or an ancestor of p
AddChild(p, c) ==
    /\ heap[c].parent = NoRef
    /\ p \notin Reach(heap, {c})
    /\ heap' = add_child(heap, p, c)
    /\ ret' = [op |-> "add_child", target |-> NoDate, exc |-> None,
               value |-> FALSE, tasks |-> <<p, c>>]
    /\ UNCHANGED treeFrame

\* heap[p].remove_child(heap[c])
RemoveChild(p, c) ==
    /\ heap' = remove_child(heap, p, c)
    /\ ret' = [op |-> "remove_child", target |-> NoDate, exc |-> None,
               value |-> FALSE, tasks |-> <<p, c>>]
    /\ UNCHANGED treeFrame

\* the state after a mark_completed call that ended as m
Marked(m, t, completed) ==
    /\ heap' = m.h
    /\ ret' = [op |-> "mark_completed", target |-> NoDate, exc |-> m.exc,
               value |-> completed, tasks |-> <<t>>]
    /\ UNCHANGED treeFrame

\* heap[t].mark_completed(completed)
MarkCompleted(t, completed) == Marked(mark_completed(heap, t, completed, 1), t, completed)

\* heap[t].get_completion_percentage(); ret.tasks is <<t, numerator, denominator>>
GetCompletionPercentage(t) ==
    /\ ret' = [op |-> "get_completion_percentage", target |-> NoDate,
               exc |-> None, value |-> FALSE,
               tasks |-> <<t>> \o get_completion_percentage(heap, t)]
    /\ UNCHANGED heap
    /\ UNCHANGED treeFrame

NextTree ==
    \/ \E p, c \in TaskRefs : AddChild(p, c)
    \/ \E p, c \in TaskRefs : RemoveChild(p, c)
    \/ \E t \in TaskRefs, completed \in BOOLEAN : MarkCompleted(t, completed)
    \/ \E t \in TaskRefs : GetCompletionPercentage(t)

SpecTree == InitTree /\ [][NextTree]_vars

(***************************************************************************)
(* Task objects under every sequence of add_child / remove_child calls     *)
(* that puts no task under its own descendant: the child handed to         *)
(* add_child may have a parent already.                                    *)
(***************************************************************************)
\* heap[p].add_child(heap[c]); c is not p or an ancestor of p
AddChildAny(p, c) ==
    /\ p \notin Reach(heap, {c})
    /\ heap' = add_child(heap, p, c)
    /\ ret' = [op |-> "add_child", target |-> NoDate, exc |-> None,
               value |-> FALSE, tasks |-> <<p, c>>]
    /\ UNCHANGED treeFrame

NextForest ==
    \/ \E p, c \in TaskRefs : AddChildAny(p, c)
    \/ \E p, c \in TaskRefs : RemoveChild(p, c)

SpecForest == InitTree /\ [][NextForest]_vars

(***************************************************************************)
(* The TaskManager over the tasks table, as the main window drives it:     *)
(* create_task, get_user_tasks, delete_task, and the window's              *)
(* mark_task_completed (mark, update, refresh).  A restart of the          *)
(* application leaves the table and starts with no object and an empty     *)
(* cache.                                                                  *)
(***************************************************************************)
\* number of rows the tasks table gets, and of Task objects one run of the
\* application makes
MaxRows == 2
MaxObjects == 4

\* number of UPDATE statements and of failing statements the model follows
\* (db.updates + db.errors, the counters of the table's history)
MaxWrites == 2

\* ids the tasks table hands out in the model
TaskIds == 1..MaxRows

\* the ids of S and of the rows below them along the parent_id column
RECURSIVE RowSubtree(_, _)
RowSubtree(d, S) ==
    IF \A i \in 1..Len(d.rows) : d.rows[i].parent_id \in S => d.rows[i].id \in S
    THEN S
    ELSE RowSubtree(d, S \cup {d.rows[i].id : i \in {j \in 1..Len(d.rows) :
                                                     d.rows[j].parent_id \in S}})

\* the rows of d whose id is not in S
rows_without(d, S) ==
    LET kept(row) == row.id \notin S
    IN  SelectSeq(d.rows, kept)

\* DatabaseHandler.delete_task: DELETE FROM tasks WHERE id = ?; rowcount > 0;
\* False when sqlite raises.  The parent_id column is declared ON DELETE
\* CASCADE (db_handler.py:80) and no connection sets PRAGMA foreign_keys, so
\* whether the rows below go too is left to the sqlite build: cascade.
db_delete_task(d, task_id, ok, cascade) ==
    IF ok /\ HasRow(d, task_id)
    THEN [db |-> [d EXCEPT !.rows = rows_without(d, IF cascade
                                                    THEN RowSubtree(d, {task_id})
                                                    ELSE {task_id})],
          success |-> TRUE]
    ELSE [db |-> [d EXCEPT !.errors = IF ok THEN @ ELSE @ + 1], success |-> FALSE]

\* self._tasks_cache.pop(key, None)
cache_pop(c, key) == [k \in (DOMAIN c) \ {key} |-> c[k]]

\* delete_task: if task.parent: task.parent.remove_child(task)
parent_left(s, ref) ==
    IF s.heap[ref].parent # NoRef
    THEN [s EXCEPT !.heap = remove_child(s.heap, s.heap[ref].parent, ref)]
    ELSE s

\* delete_task after db_handler.delete_task returned
row_deleted(s, del, task_id) ==
    [s |-> [s EXCEPT !.db = del.db,
                     !.cache = IF del.success THEN cache_pop(@, task_id) ELSE @],
     success |-> del.success]

\* TaskManager.delete_task; bad is the set of ids on whose DELETE sqlite
\* raises.  delete_children is the loop `for child in task.children[:]' over
\* the copy kids from its i-th element on, task_found the call after get_task.
RECURSIVE delete_task(_, _, _, _)
RECURSIVE delete_children(_, _, _, _, _)
delete_children(s, kids, i, bad, cascade) ==
    IF i > Len(kids)
    THEN s
    ELSE delete_children(IF s.heap[kids[i]].task_id # NoId
                         THEN delete_task(s, s.heap[kids[i]].task_id, bad, cascade).s
                         ELSE s,
                         kids, i + 1, bad, cascade)

\* delete_task after the loop over the children
children_deleted(s, ref, task_id, bad, cascade) ==
    row_deleted(parent_left(s, ref),
                db_delete_task(s.db, task_id, task_id \notin bad, cascade),
                task_id)

task_found(got, task_id, bad, cascade) ==
    IF got.ref = NoRef
    THEN [s |-> got.s, success |-> FALSE]
    ELSE children_deleted(delete_children(got.s, got.s.heap[got.ref].children, 1,
                                          bad, cascade),
                          got.ref, task_id, bad, cascade)

delete_task(s, task_id, bad, cascade) ==
    task_found(get_task(s, task_id), task_id, bad, cascade)

\* DatabaseHandler.load_user_tasks: the rows of the user, the completed ones
\* only on request, ORDER BY created_at DESC (the row saved last comes first)
RECURSIVE load_user_tasks(_, _, _, _)
load_user_tasks(d, user_id, include_completed, i) ==
    IF i = 0 THEN <<>>
    ELSE (IF d.rows[i].user_id = user_id /\ (include_completed \/ ~d.rows[i].completed)
          THEN <<row_to_task(d.rows[i])>> ELSE <<>>)
         \o load_user_tasks(d, user_id, include_completed, i - 1)

\* get_user_tasks: the loop that caches every task loaded; the k-th task of
\* the list is the object base + k
RECURSIVE tasks_cached(_, _, _, _)
tasks_cached(c, tasks, base, k) ==
    IF k > Len(tasks) THEN c
    ELSE tasks_cached(IF tasks[k].task_id # NoId
                      THEN cache_put(c, tasks[k].task_id, base + k) ELSE c,
                      tasks, base, k + 1)

\* task_dict[task_id] of _build_task_hierarchy over the objects first..last
\* (NoRef: not a key); of two objects with one id the later one is kept
task_dict(h, first, last, task_id) ==
    IF \E x \in first..last : h[x].task_id = task_id /\ task_id # NoId
    THEN CHOOSE x \in first..last :
           /\ h[x].task_id = task_id
           /\ \A y \in first..last : h[y].task_id = task_id => y <= x
    ELSE NoRef

\* TaskManager._build_task_hierarchy: the loop from the object x on
RECURSIVE build_task_hierarchy(_, _, _, _)
build_task_hierarchy(h, first, last, x) ==
    IF x > last THEN h
    ELSE build_task_hierarchy(
           IF h[x].parent_id # NoId
              /\ task_dict(h, first, last, h[x].parent_id) # NoRef
           THEN add_child(h, task_dict(h, first, last, h[x].parent_id), x)
           ELSE h,
           first, last, x + 1)

\* get_user_tasks after load_user_tasks returned
tasks_loaded(s, tasks) ==
    [s |-> [s EXCEPT !.heap = build_task_hierarchy(s.heap \o tasks, Len(s.heap) + 1,
                                                   Len(s.heap) + Len(tasks),
                                                   Len(s.heap) + 1),
                     !.cache = tasks_cached(s.cache, tasks, Len(s.heap), 1)],
     tasks |-> [k \in 1..Len(tasks) |-> Len(s.heap) + k]]

\* TaskManager.get_user_tasks
get_user_tasks(s, user_id, include_completed) ==
    tasks_loaded(s, load_user_tasks(s.db, user_id, include_completed, Len(s.db.rows)))

\* TodoWindow.mark_task_completed after task.mark_completed returned:
\* update_task(task), then refresh_tasks; an exception ends in a message box
task_marked(m, s, ref, ok) ==
    IF m.exc # None
    THEN [s |-> [s EXCEPT !.heap = m.h], exc |-> m.exc]
    ELSE [s |-> get_user_tasks(update_task([s EXCEPT !.heap = m.h], ref, ok),
                               UserId, TRUE).s,
          exc |-> None]

\* TodoWindow.mark_task_completed
mark_task_completed(s, ref, completed, ok) ==
    task_marked(mark_completed(s.heap, ref, completed, 1), s, ref, ok)

\* the manager's state
Manager == [db |-> db, heap |-> heap, cache |-> cache]

\* the history counters of the table have room for one more statement
CanWrite == db.updates + db.errors < MaxWrites

\* what the operations of the manager leave alone
managerFrame == <<routine, now, genLog, rstore, pass, passLog>>

InitManager ==
    /\ db = EmptyStore
    /\ heap = <<>>
    /\ cache = <<>>
    /\ ret = NoCall
    /\ routine = RoutineOf(FALSE, <<>>)
    /\ now = Epoch
    /\ genLog = <<>>
    /\ rstore = <<>>
    /\ pass = <<>>
    /\ passLog = <<>>

\* the state after a call of the manager that ended in the state s
Managed(s, op, exc, value, tasks) ==
    /\ db' = s.db
    /\ heap' = s.heap
    /\ cache' = s.cache
    /\ ret' = [op |-> op, target |-> NoDate, exc |-> exc, value |-> value,
               tasks |-> tasks]
    /\ UNCHANGED managerFrame

\* the state after a create_task call that ended as c
Created(c) ==
    Managed(c.s, "create_task", c.exc, FALSE,
            IF c.exc = None THEN <<c.ref>> ELSE <<>>)

\* task_manager.create_task(title, user_id=..., parent_id=...), the parent a
\* task of the table or none; ok: sqlite does not raise on the INSERT
CreateTask(title, parent_id, ok) ==
    /\ db.lastrowid < MaxRows
    /\ Len(heap) < MaxObjects
    /\ parent_id = NoId \/ HasRow(db, parent_id)
    /\ ok \/ CanWrite
    /\ Created(create_task(Manager, title, <<>>, UserId, parent_id, ok))

\* the application is closed and started again (TaskManager.__init__ in a
\* new process); after a run that made no object this changes nothing
Restart ==
    /\ heap # <<>>
    /\ Managed([db |-> db, heap |-> <<>>, cache |-> <<>>], "restart", None, FALSE, <<>>)

\* the state after a get_user_tasks call that ended as g
Loaded(g, include_completed) ==
    Managed(g.s, "get_user_tasks", None, include_completed, g.tasks)

\* task_manager.get_user_tasks(user_id, include_completed)
GetUserTasks(include_completed) ==
    /\ Len(heap) + Len(db.rows) <= MaxObjects
    /\ Loaded(get_user_tasks(Manager, UserId, include_completed), include_completed)

\* the state after a mark_task_completed call of the window that ended as w;
\* ret.tasks is the id of the task marked
WindowMarked(w, ref, completed) ==
    Managed(w.s, "mark_task_completed", w.exc, completed, <<heap[ref].task_id>>)

\* window.mark_task_completed(task, completed) on a task the manager holds
MarkTaskCompleted(ref, completed, ok) ==
    /\ Len(heap) + Len(db.rows) <= MaxObjects
    /\ \E k \in DOMAIN cache : k # NoId /\ cache[k] = ref
    /\ CanWrite
    /\ WindowMarked(mark_task_completed(Manager, ref, completed, ok), ref, completed)

\* the state after a delete_task call that ended as d
Deleted(d, task_id) ==
    Managed(d.s, "delete_task", None, d.success, <<task_id>>)

\* task_manager.delete_task(task_id)
DeleteTask(task_id, bad, cascade) ==
    /\ Len(heap) + Cardinality(RowSubtree(db, {task_id})) <= MaxObjects
    /\ bad = {} \/ CanWrite
    /\ Deleted(delete_task(Manager, task_id, bad, cascade), task_id)

\* the DELETE statements of one delete_task call on which sqlite raises
FailingDeletes == {{}} \cup {{i} : i \in TaskIds}

NextManager ==
    \/ \E title \in {TemplateTitle(1), BlankTitle}, parent_id \in {NoId} \cup TaskIds,
          ok \in BOOLEAN : CreateTask(title, parent_id, ok)
    \/ Restart
    \/ \E include_completed \in BOOLEAN : GetUserTasks(include_completed)
    \/ \E ref \in 1..Len(heap), completed \in BOOLEAN, ok \in BOOLEAN :
         MarkTaskCompleted(ref, completed, ok)
    \/ \E task_id \in TaskIds, bad \in FailingDeletes, cascade \in BOOLEAN :
         DeleteTask(task_id, bad, cascade)

SpecManager == InitManager /\ [][NextManager]_vars

(***************************************************************************)
(* The evaluator on its own: should_generate_today applied to routines of  *)
(* every kind and interval, over target dates before, inside and after the *)
(* validity window.                                                        *)
(***************************************************************************)
\* the date k days after t
RECURSIVE add_days(_, _)
add_days(t, k) == IF k = 0 THEN t ELSE add_days(next_day(t), k - 1)

\* first day of the evaluator's calendar (a Sunday) and its length in days
EvalFirstDay == DT(2024, 1, 28, 0)
EvalRun == 11
EvalSpan == 95

EvalTargets ==
    {NoDate}
    \cup {add_days(EvalFirstDay, k) : k \in 0..EvalRun}
    \cup {DT(2024, 2, 12, 0), DT(2024, 2, 14, 0), DT(2024, 2, 14, MaxHour),
          DT(2024, 2, 15, 0), DT(2024, 2, 29, 0), DT(2024, 3, 29, 0),
          DT(2024, 3, 31, 0), DT(2024, 4, 29, 0), DT(2024, 2, 1, MaxHour)}

InitEval ==
    /\ routine \in [is_active : BOOLEAN,
                    repeat_type : RepeatTypes,
                    repeat_interval : Intervals,
                    start_date : {DT(2024, 1, 29, 0), DT(2024, 1, 31, 0)},
                    end_date : {NoDate, DT(2024, 2, 14, 0)},
                    last_generated : {NoDate, DT(2024, 2, 1, MaxHour)},
                    custom_days : {{}, {0, 2}, {5, 6}},
                    task_templates : {Templates(1)},
                    preferred_time : {NoTime},
                    name : {RoutineName},
                    description : {<<>>},
                    user_id : {UserId}]
    /\ now = Epoch
    /\ db = EmptyStore
    /\ heap = <<>>
    /\ cache = <<>>
    /\ ret = NoCall
    /\ genLog = <<>>
    /\ rstore = <<>>
    /\ pass = <<>>
    /\ passLog = <<>>

NextEval == \E t \in EvalTargets : ShouldGenerateToday(t)

SpecEval == InitEval /\ [][NextEval]_vars

(***************************************************************************)
(* Properties of the evaluator.  The expected values are written from the  *)
(* calendar (counting days one at a time), not from the evaluator's        *)
(* arithmetic.                                                             *)
(***************************************************************************)
EvalDone == ret.op = "should_generate_today"

\* the date the evaluator looked at
Target == IF ret.target = NoDate THEN [now EXCEPT !.hour = 0] ELSE ret.target

ReturnedTrue == EvalDone /\ ret.exc = None /\ ret.value

\* a is strictly earlier than b
Before(a, b) ==
    \/ a.year < b.year
    \/ a.year = b.year /\ a.month < b.month
    \/ a.year = b.year /\ a.month = b.month /\ a.day < b.day
    \/ a.year = b.year /\ a.month = b.month /\ a.day = b.day /\ a.hour < b.hour

\* number of days from the date of d to the date of t (t not before d)
RECURSIVE CountDays(_, _, _)
CountDays(d, t, k) ==
    IF d.year = t.year /\ d.month = t.month /\ d.day = t.day THEN k
    ELSE IF k >= EvalSpan THEN 0 - 1
    ELSE CountDays(next_day(d), t, k + 1)

DaysSinceStart == CountDays(routine.start_date, Target, 0)

\* 2024-01-29 is a Monday
WeekdayIndex == CountDays(DT(2024, 1, 29, 0), Target, 0) % 7

MonthsBetween ==
    (Target.year - routine.start_date.year) * 12
      + (Target.month - routine.start_date.month)

\* the evaluator got as far as the pattern matcher
PatternReached ==
    /\ EvalDone
    /\ routine.is_active
    /\ ~Before(Target, routine.start_date)
    /\ routine.end_date = NoDate \/ ~Before(routine.end_date, Target)
    /\ \/ routine.last_generated = NoDate
       \/ midnight(routine.last_generated) # midnight(Target)

\* C3: for a MONTHLY routine with repeat_interval >= 1 the pattern matcher
\* answers True exactly when the target's day-of-month equals the start's
\* and the number of months between them is a multiple of repeat_interval.
C3_MonthlyMatchesIff ==
    (PatternReached /\ routine.repeat_type = "monthly" /\ routine.repeat_interval >= 1)
    => /\ ret.exc = None
       /\ ret.value <=> /\ Target.day = routine.start_date.day
                        /\ MonthsBetween % routine.repeat_interval = 0

\* C4: a MONTHLY routine that starts on the 31st does not fire on any date
\* in February.
C4_Day31SkipsFebruary ==
    (EvalDone /\ routine.repeat_type = "monthly" /\ routine.start_date.day = 31
       /\ routine.repeat_interval >= 1 /\ Target.month = 2)
    => ~(ret.exc = None /\ ret.value)

\* C5: an active DAILY routine with repeat_interval N >= 1, no end date and
\* nothing generated yet fires on a date on or after its start D exactly when
\* the date is D + k*N for some k >= 0.
C5_DailyEveryNDays ==
    (EvalDone /\ routine.is_active /\ routine.repeat_type = "daily"
       /\ routine.repeat_interval >= 1 /\ routine.end_date = NoDate
       /\ routine.last_generated = NoDate /\ ~Before(Target, routine.start_date))
    => /\ ret.exc = None
       /\ ret.value <=> \E k \in 0..EvalSpan :
                           DaysSinceStart = k * routine.repeat_interval

C5_Witness ==
    /\ ReturnedTrue /\ routine.repeat_type = "daily" /\ routine.repeat_interval = 2
    /\ routine.end_date = NoDate /\ routine.last_generated = NoDate
    /\ DaysSinceStart = 4

C7_WeekdayKindsUseWeekdayOnly ==
    PatternReached =>
      /\ routine.repeat_type = "weekdays"
           => ret.exc = None /\ (ret.value <=> WeekdayIndex < 5)
      /\ routine.repeat_type = "weekends"
           => ret.exc = None /\ (ret.value <=> WeekdayIndex >= 5)
      /\ routine.repeat_type = "custom"
           => ret.exc = None /\ (ret.value <=> WeekdayIndex \in routine.custom_days)

C7_Witness ==
    /\ ReturnedTrue /\ routine.repeat_type = "weekends" /\ WeekdayIndex = 5
    /\ routine.repeat_interval = 0

\* C8: should_generate_today answers True only for an active routine and a
\* target that is neither before start_date nor after a defined end_date.
C8_TrueOnlyInsideWindow ==
    ReturnedTrue =>
      /\ routine.is_active
      /\ ~Before(Target, routine.start_date)
      /\ routine.end_date = NoDate \/ ~Before(routine.end_date, Target)

C8_Witness ==
    /\ ReturnedTrue /\ routine.end_date # NoDate /\ Target = routine.end_date

\* C9: should_generate_today never raises.
C9_NeverRaises == EvalDone => ret.exc = None

\* C10: a call of should_generate_today changes no field of the routine and
\* nothing in the task store, and its answer for an explicit target date is
\* a function of the routine's state and that date alone: evaluating again,
\* at any later wall-clock time, gives the recorded answer.
C10_EvaluatorIsPure ==
    /\ [][(ret'.op = "should_generate_today" /\ ret' # ret)
            => UNCHANGED <<routine, now, db, heap, cache, genLog>>]_vars
    /\ [](EvalDone /\ ret.target # NoDate
            => \A c \in AllInstants :
                 should_generate_today(routine, ret.target, c)
                   = [exc |-> ret.exc, value |-> ret.value])

C10_Witness ==
    /\ ReturnedTrue /\ ret.target # NoDate
    /\ routine.last_generated # NoDate /\ db.rows # <<>> /\ now # Epoch

(***************************************************************************)
(* Properties of the generator.                                            *)
(***************************************************************************)
\* C1: no two generate_tasks calls on the routine both create tasks for the
\* same target calendar date.
C1_NeverTwiceForOneDate ==
    \A i, j \in 1..Len(genLog) :
        (i < j /\ genLog[i].date = genLog[j].date)
        => ~(genLog[i].stored > 0 /\ genLog[j].stored > 0)

\* C2: of two successive generate_tasks calls for the same calendar date the
\* first returns a non-empty list and the second an empty one (stated for a
\* first call that did generate).
C2_SecondCallIsEmpty ==
    \A i \in 1..Len(genLog) :
        (i < Len(genLog) /\ genLog[i].date = genLog[i + 1].date
           /\ genLog[i].returned > 0)
        => genLog[i + 1].returned = 0

\* C11: a generate_tasks call whose evaluator answers False returns an empty
\* list and changes nothing: no task is created or updated, the cache and
\* the Task objects stay as they were, and the routine (last_generated
\* included) is unchanged.
C11_FalseMeansNoEffect ==
    [][(genLog' # genLog
          /\ should_generate_today(routine, ret'.target, now) = Return(FALSE))
         => (/\ ret'.exc = None
             /\ ret'.tasks = <<>>
             /\ UNCHANGED <<routine, db, heap, cache>>)]_vars

\* a call that answered False on a routine that generated before
C11_Witness ==
    /\ Len(genLog) = 2
    /\ genLog[1].stored > 0
    /\ ~genLog[2].fired /\ genLog[2].exc = None
    /\ routine.last_generated # NoDate /\ db.rows # <<>>

\* the last call was a generate_tasks call that fired and returned its list
GenReturned == ret.op = "generate_tasks" /\ ret.exc = None /\ ret.value

\* the log entry of the last generate_tasks call
LastGen == genLog[Len(genLog)]

\* the i-th task of the returned list
Returned(i) == heap[ret.tasks[i]]

\* the call created and returned one task with this title, owned by the
\* routine's user and without a parent
OnlyTaskTitled(title) ==
    /\ Len(ret.tasks) = 1
    /\ LastGen.stored = 1
    /\ Returned(1).title = title
    /\ Returned(1).user_id = routine.user_id
    /\ Returned(1).parent_id = NoId
    /\ Returned(1).parent = NoRef

\* C12 as stated: a firing routine with exactly one template returns exactly
\* one task, titled "<template title> - <YYYY-MM-DD of the target date>",
\* owned by the routine's user, with no parent; no other task is created.
C12_SingleTemplateDatedTitle ==
    (GenReturned /\ Len(routine.task_templates) = 1)
    => OnlyTaskTitled(dated_title(routine.task_templates[1].title, LastGen.date))

\* C12 amended: the title is "<template title> - <YYYY-MM-DD>" with leading
\* and trailing whitespace removed, the rest as stated.
C12_SingleTemplateStrippedTitle ==
    (GenReturned /\ Len(routine.task_templates) = 1)
    => OnlyTaskTitled(strip(dated_title(routine.task_templates[1].title,
                                        LastGen.date)))

\* the second generation of a routine with the one template "A"
C12_Witness ==
    /\ GenReturned /\ routine.task_templates = Templates(1)
    /\ Len(genLog) = 2 /\ genLog[1].stored = 1 /\ db.lastrowid = 2
    /\ Returned(1).task_id = 2

\* the last call was a generate_tasks call whose evaluator answered True
GenFired == ret.op = "generate_tasks" /\ ret.value

\* C13: a firing routine with k > 1 templates returns exactly k + 1 tasks and
\* creates no other: first the synthetic parent, titled "<routine name> -
\* <YYYY-MM-DD>" and without a parent, then one child per template in stored
\* order, each with the template's title unmodified and with parent_id equal
\* to the synthetic parent's id.
C13_ManyTemplatesParentFirst ==
    (GenFired /\ Len(routine.task_templates) > 1)
    => /\ ret.exc = None
       /\ Len(ret.tasks) = Len(routine.task_templates) + 1
       /\ LastGen.stored = Len(routine.task_templates) + 1
       /\ Returned(1).title = dated_title(routine.name, LastGen.date)
       /\ Returned(1).parent_id = NoId
       /\ \A i \in 1..Len(routine.task_templates) :
            /\ Returned(i + 1).title = routine.task_templates[i].title
            /\ Returned(i + 1).parent_id = Returned(1).task_id
            /\ Returned(i + 1).user_id = routine.user_id

\* ids of the rows the last generate_tasks call inserted
CreatedIds == (db.lastrowid - LastGen.stored + 1)..db.lastrowid

CreatedRow(id) == db.rows[RowIndex(db, id)]
CreatedObj(id) == heap[cache[id]]

\* the synthetic parent: the parentless task of a routine of several templates
IsSyntheticParent(id) ==
    Len(routine.task_templates) > 1 /\ CreatedRow(id).parent_id = NoId

\* the due date the claim gives the created task id
ExpectedDue(id) ==
    IF routine.preferred_time # NoTime /\ ~IsSyntheticParent(id)
    THEN combine(LastGen.date, routine.preferred_time)
    ELSE NoDate

\* C14: with a preferred time, every non-parent task the generator creates
\* gets as due date the target date combined with that time, on the object
\* and, through update_task, in the stored row; the synthetic parent's due
\* date stays unset; without a preferred time no due date is set and
\* update_task is not called.
C14_DueDateFromPreferredTime ==
    GenFired =>
      /\ \A id \in CreatedIds :
           /\ CreatedObj(id).due_date = ExpectedDue(id)
           /\ CreatedRow(id).due_date = ExpectedDue(id)
      /\ LastGen.updated =
           IF routine.preferred_time = NoTime THEN 0
           ELSE Cardinality({id \in CreatedIds : ~IsSyntheticParent(id)})

\* a second generation, for a later date, of two templates with a preferred
\* time: a parent without due date and two children with one
C14_Witness ==
    /\ GenReturned /\ routine.preferred_time # NoTime
    /\ Len(ret.tasks) = 3 /\ LastGen.updated = 2 /\ db.lastrowid > 3
    /\ Returned(1).due_date = NoDate
    /\ Returned(3).due_date = combine(DT(2024, 2, 2, 0), routine.preferred_time)

\* C15: last_generated, once set, is never later than the wall clock, and a
\* generate_tasks call that sets it sets it to the clock reading of that
\* moment, whatever the target date.
C15_LastGeneratedIsClockReading ==
    /\ [](routine.last_generated # NoDate => ~Before(now, routine.last_generated))
    /\ [][routine'.last_generated # routine.last_generated
            => routine'.last_generated = now']_vars

\* a generation for a date after today: last_generated is today's reading
C15_Witness ==
    /\ GenReturned /\ ret.target = DT(2024, 2, 2, 0)
    /\ routine.last_generated = now /\ Before(now, ret.target)

(***************************************************************************)
(* Properties of the scheduler facade.                                     *)
(***************************************************************************)
\* the entry k is of a routine whose generate_tasks call returned tasks and
\* whose update_routine call is the next step of its invocation
UpdatePending(k) ==
    pass[passLog[k].pass].pc = "update" /\ k = LastEntryOf(passLog[k].pass)

\* C16: in generate_routine_tasks update_routine is called for a routine if
\* and only if generate_tasks returned at least one task for it in this
\* pass; a routine that returned no task is not written back.
C16_PersistedIffGenerated ==
    \A k \in 1..Len(passLog) :
        IF UpdatePending(k)
        THEN ~passLog[k].updated
        ELSE passLog[k].updated <=> passLog[k].returned > 0

\* two finished passes, one that wrote its routine back and one that found
\* nothing to generate and wrote nothing
C16_Witness ==
    /\ \A p \in Passes : pass[p].pc = "done"
    /\ \E j, k \in 1..Len(passLog) :
         /\ passLog[j].updated /\ passLog[j].returned > 0
         /\ ~passLog[k].updated /\ passLog[k].returned = 0
         /\ passLog[j].routine_id = passLog[k].routine_id
    /\ \E i \in 1..Len(rstore) : rstore[i].last_generated # NoDate

(***************************************************************************)
(* Properties of the generator over a failing store.                       *)
(***************************************************************************)
\* C17: a failure of the task store during generate_tasks reaches the caller:
\* a call in which a store statement failed ends in an exception and returns
\* no task list.
C17_StoreFailureReachesCaller ==
    \A k \in 1..Len(genLog) :
        genLog[k].errors > 0 => (genLog[k].exc # None /\ genLog[k].returned = 0)

\* C18: neither the evaluator nor the generator raises a validation error:
\* for every routine built with add_task_template, whatever the titles of its
\* templates, no call ends in ValueError.
C18_NoValidationError == ret.exc # "ValueError"

\* two passes got tasks back from generate_tasks for one routine and one date
GeneratedTwice ==
    \E j, k \in 1..Len(passLog) :
        /\ j < k
        /\ passLog[j].routine_id = passLog[k].routine_id
        /\ passLog[j].date = passLog[k].date
        /\ passLog[j].returned > 0 /\ passLog[k].returned > 0

\* C19: two generate_routine_tasks invocations that overlap can both generate
\* tasks for one routine and one date; when one invocation starts only after
\* the other has ended, each loading the routines from the table, no routine
\* generates tasks twice for one date.  (The second half, stated of the
\* invocations that run one after the other.)
C19_SerializedNeverTwice == ~GeneratedTwice

(***************************************************************************)
(* Properties of task trees.                                               *)
(***************************************************************************)
\* the last call was mark_completed(True)
MarkedComplete == ret.op = "mark_completed" /\ ret.value

\* C20: on every acyclic tree mark_completed(True) returns (no recursion
\* without end) and leaves the task and every task below it, at any depth,
\* completed.
C20_CascadeCompletesSubtree ==
    MarkedComplete =>
      /\ ret.exc = None
      /\ \A d \in Reach(heap, {ret.tasks[1]}) : heap[d].completed

\* the root of a chain of three tasks was marked: the grandchild is completed
C20_Witness ==
    /\ MarkedComplete
    /\ \E c, g \in TaskRefs :
         /\ c # g /\ c # ret.tasks[1] /\ g # ret.tasks[1]
         /\ heap[ret.tasks[1]].children = <<c>>
         /\ heap[c].children = <<g>>
         /\ heap[g].completed /\ heap[g].parent = c

\* the last call was get_completion_percentage
PercentageTaken == ret.op = "get_completion_percentage"

\* the direct children of the task asked that are complete
CompleteChildrenOfAsked ==
    {c \in Elems(heap[ret.tasks[1]].children) : heap[c].completed}

\* C21: get_completion_percentage is 1.0 for a task that is complete, 0.0 for
\* an incomplete task without children, and otherwise the number of complete
\* direct children divided by the number of direct children (whatever the
\* state of the grandchildren); it lies between 0 and 1.
C21_PercentageOfDirectChildren ==
    PercentageTaken =>
      /\ 0 <= ret.tasks[2] /\ ret.tasks[2] <= ret.tasks[3] /\ ret.tasks[3] > 0
      /\ IF heap[ret.tasks[1]].completed
         THEN ret.tasks[2] = ret.tasks[3]
         ELSE IF heap[ret.tasks[1]].children = <<>>
         THEN ret.tasks[2] = 0
         ELSE /\ ret.tasks[2] = Cardinality(CompleteChildrenOfAsked)
              /\ ret.tasks[3] = Cardinality(Elems(heap[ret.tasks[1]].children))

\* an incomplete task with an incomplete child whose own child is complete:
\* the percentage is 0 of 1
C21_Witness ==
    /\ PercentageTaken
    /\ ~heap[ret.tasks[1]].completed
    /\ \E c, g \in TaskRefs :
         /\ heap[ret.tasks[1]].children = <<c>> /\ heap[c].children = <<g>>
         /\ ~heap[c].completed /\ heap[g].completed
    /\ ret.tasks[2] = 0 /\ ret.tasks[3] = 1

\* C27: in every state that mark_completed(True / False), add_child and
\* remove_child reach, a task that is complete has only complete tasks below
\* it.
C27_CompleteHasCompleteDescendants ==
    \A t \in DOMAIN heap :
        heap[t].completed => \A d \in Reach(heap, {t}) : heap[d].completed

(***************************************************************************)
(* Properties of generation as a whole: the store after a call that        *)
(* raised, later passes of the scheduler, the dates one call uses.         *)
(***************************************************************************)
\* C26: generation is atomic for the task store: a generate_tasks call that
\* ends by raising has added no task to the store.
C26_RaiseLeavesStoreUnchanged ==
    \A k \in 1..Len(genLog) : genLog[k].exc # None => genLog[k].stored = 0

\* two passes, one after the other, stored tasks for one routine and one date
CreatedInTwoPasses ==
    \E j, k \in 1..Len(passLog) :
        /\ j < k /\ passLog[j].pass # passLog[k].pass
        /\ passLog[j].routine_id = passLog[k].routine_id
        /\ passLog[j].date = passLog[k].date
        /\ passLog[j].stored > 0 /\ passLog[k].stored > 0

\* C25: over successive scheduler passes for one user and one date, each
\* loading the routines again, a routine that created tasks in one pass
\* creates none in a later pass for that date.
C25_LaterPassCreatesNone == ~CreatedInTwoPasses

\* the step is a generate_tasks call without target_date that generated
DefaultDateGeneration ==
    /\ ret'.op = "generate_tasks" /\ ret'.target = NoDate
    /\ ret'.value /\ ret'.exc = None
    /\ Len(genLog') = Len(genLog) + 1

\* C30: with target_date omitted, one generate_tasks call uses one calendar
\* date throughout: the date the evaluator decides for (the clock when the
\* call starts), the date of the titles and due timestamps, and the calendar
\* date of last_generated are the same, also when the clock passes midnight
\* during the call.
C30_OneDateThroughout ==
    [][DefaultDateGeneration =>
         /\ genLog'[Len(genLog')].date = midnight(now)
         /\ midnight(routine'.last_generated) = midnight(now)]_vars

(***************************************************************************)
(* Properties of the hierarchy in memory.                                  *)
(***************************************************************************)
\* the tasks that hold c in their children list
ParentsOf(c) == {p \in DOMAIN heap : c \in Elems(heap[p].children)}

\* C24: after any sequence of add_child / remove_child calls that never adds
\* a task under its own descendant the hierarchy is a tree: a task is in the
\* children list of at most one task and at most once, and c is in
\* p.children exactly when c.parent is p and c.parent_id is p.task_id.
C24_HierarchyIsTree ==
    \A c \in DOMAIN heap :
        /\ Cardinality(ParentsOf(c)) <= 1
        /\ Cardinality(Elems(heap[c].children)) = Len(heap[c].children)
        /\ \A p \in DOMAIN heap :
              c \in Elems(heap[p].children)
                <=> (heap[c].parent = p /\ heap[c].parent_id = heap[p].task_id)

(***************************************************************************)
(* Properties of the TaskManager.                                          *)
(***************************************************************************)
\* get_task(task_id) finds a task, in the cache or in the table
Retrievable(d, c, task_id) == task_id \in DOMAIN c \/ HasRow(d, task_id)

\* C22: after delete_task(id) returned True, neither the task nor any task
\* below it (along parent_id in the store before the call) is left in the
\* store or in the cache, whether get_task served the task from the cache or
\* loaded it from the database.
C22_DeleteRemovesSubtree ==
    [][(ret'.op = "delete_task" /\ ret'.value) =>
         \A d \in RowSubtree(db, {ret'.tasks[1]}) : ~Retrievable(db', cache', d)]_vars

\* the task the last create_task call returned
CreatedTask == heap'[ret'.tasks[1]]

\* C23: a task that create_task returns has an identifier the store
\* assigned, is persisted, and get_task finds it under that identifier; a
\* create_task call that raises (a blank title: ValueError) leaves the store
\* and the cache as they were.
C23_CreatedTaskIsStored ==
    [][ret'.op = "create_task" =>
         IF ret'.exc = None
         THEN /\ CreatedTask.task_id # NoId
              /\ HasRow(db', CreatedTask.task_id)
              /\ CreatedTask.task_id \in DOMAIN cache'
              /\ cache'[CreatedTask.task_id] = ret'.tasks[1]
         ELSE /\ ret'.exc = "ValueError"
              /\ db' = db /\ cache' = cache]_vars

\* the last call was the window's mark_task_completed(task, True), and the
\* refresh loaded the task again
MarkedAndReloaded ==
    /\ ret.op = "mark_task_completed" /\ ret.value /\ ret.exc = None
    /\ ret.tasks[1] \in DOMAIN cache

\* C28: after the window's mark_task_completed(task, True) and the refresh
\* that loads all tasks from the database again, every task below the marked
\* one is complete in the list loaded.
C28_ReloadedSubtreeComplete ==
    MarkedAndReloaded =>
      \A x \in Reach(heap, {cache[ret.tasks[1]]}) \ {cache[ret.tasks[1]]} :
          heap[x].completed

\* C29: when delete_task(id) returns False for a task that exists, nothing
\* has changed: the rows of the store are the same, every cached task is
\* still cached, and every object has the parent and the children it had.
C29_FailedDeleteChangesNothing ==
    [][(ret'.op = "delete_task" /\ ~ret'.value
          /\ Retrievable(db, cache, ret'.tasks[1])) =>
         /\ db'.rows = db.rows
         /\ \A k \in DOMAIN cache : k \in DOMAIN cache' /\ cache'[k] = cache[k]
         /\ \A x \in 1..Len(heap) :
              /\ heap'[x].parent = heap[x].parent
              /\ heap'[x].children = heap[x].children]_vars

====
